---- MODULE Spec2Model ----
(***************************************************************************)
(* libUIO (src/handling.c): the life cycle of one device descriptor        *)
(* (struct uio_info_t) under uio_open / uio_close, the interrupt calls     *)
(* uio_enable_irq / uio_disable_irq / uio_irqwait_timeout, and the part of *)
(* the operating system these calls act on: the process's table of file    *)
(* descriptors, its mapped regions and the device's event counter.         *)
(***************************************************************************)
EXTENDS Integers, Sequences, FiniteSets, TLC

(* ---- bounds ---------------------------------------------------------- *)
MaxMaps == 2        \* maxmap of the descriptor: map indices 0 .. MaxMaps-1
MaxFd == 4          \* file descriptors of the process: FirstFd .. MaxFd
MaxAddr == 2        \* addresses a mapping can be placed at: 1 .. MaxAddr
MaxTimeout == 1     \* deadlines of a timed wait: 0 .. MaxTimeout ticks
MaxDevs == 3        \* device entries of the directory: uio0 .. uio<MaxDevs-1>

(* ---- program constants ----------------------------------------------- *)
MAP_FAILED == -1    \* (void *) -1, the value mmap returns on failure
ClosedFd == -1      \* info->fd of a descriptor that is not open
IrqBytes == 4       \* length of the event counter read and written

Fds == 3 .. MaxFd   \* 0, 1, 2 are stdin, stdout, stderr
Addrs == 1 .. MaxAddr
MapIdx == 0 .. (MaxMaps - 1)
Sizes == {0, 4096}  \* declared sizes of a map: an unused slot, one page

VARIABLES
    info,      \* struct uio_info_t: [fd, maxmap, maps[i] = [size, map]]
    fds,       \* the process's descriptor table: fd -> "free" | "uio" | "other"
    mapped,    \* addresses at which a region is currently mapped
    event,     \* the device has an interrupt event the open file has not read
    ioerr,     \* an error condition is pending for the next blocking call
    pc,        \* position of the calling thread
    op,        \* the library call in progress, or the last one completed
    present,   \* the info argument of that call was not NULL
    i,         \* loop index of uio_open / uio_close
    fd,        \* local fd of uio_open
    timeout,   \* the caller's timeval: NoTimeout (NULL), or the ticks left of it
    ret,       \* return value of the last completed call
    errno,     \* the thread's errno
    sys,       \* system calls issued by the call in progress / last completed
    snap,      \* info as it was when the last uio_open was entered
    mmapres,   \* per index, what mmap returned in the last uio_open that called it
    prev,      \* what the call completed before this one was (see Completed)
    abi,       \* the build: [long: sizeof (unsigned long), big: byte order]
    map,       \* the int map argument of the last accessor call
    devices    \* the last uio_find_devices: the directory and what it returned

vars == <<info, fds, mapped, event, ioerr, pc, op, present, i, fd, timeout,
          ret, errno, sys, snap, mmapres, prev, abi, map, devices>>

\* What the calls on one descriptor leave alone.
rest == <<abi, map, devices>>

NoTimeout == -1     \* timeout == NULL

(* ---- the descriptor --------------------------------------------------- *)

\* The descriptor as the factory hands it over: sizes known, not yet opened.
NewInfo(sizes) ==
    [fd |-> ClosedFd,
     maxmap |-> MaxMaps,
     maps |-> [m \in MapIdx |->
                 [size |-> sizes[m], offset |-> 16 * m,
                  addr |-> 65536 * (m + 1), map |-> MAP_FAILED]]]

Unopened(d) ==
    /\ d.fd = ClosedFd
    /\ \A m \in 0 .. (d.maxmap - 1) : d.maps[m].map = MAP_FAILED

\* The fd field names a descriptor of the process that uio_open obtained.
HandleOpen(d) == d.fd \in Fds /\ fds[d.fd] = "uio"

(* ---- system calls ----------------------------------------------------- *)

Sys(c, a, r) == [c |-> c, a |-> a, r |-> r]

FreeFds == {f \in Fds : fds[f] = "free"}

\* open(2) returns the lowest descriptor not in use.
LowestFree == CHOOSE f \in FreeFds : \A g \in FreeFds : f <= g

\* Results of open (devname, O_RDWR): -1 (ENOENT, EACCES, EMFILE) or a new fd.
OpenResults == {-1} \cup (IF FreeFds = {} THEN {} ELSE {LowestFree})

\* Results of mmap (NULL, size, ..., fd, i): MAP_FAILED, or an address not in
\* use.  A length of 0 is always refused (EINVAL).
MmapResults(size) ==
    {MAP_FAILED} \cup (IF size = 0 THEN {} ELSE Addrs \ mapped)

\* Result of close (f).
CloseResult(f) == IF f \in Fds /\ fds[f] # "free" THEN 0 ELSE -1

Returns(r) ==
    /\ ret' = r
    /\ pc' = "idle"
    /\ i' = 0
    /\ fd' = ClosedFd

\* What a completed call was, as far as the life cycle of the descriptor
\* goes: a uio_open that succeeded, a uio_close of the descriptor, or
\* anything else.
Completed(name, p, r) ==
    IF name = "uio_open" /\ p /\ r = 0 THEN "opened"
    ELSE IF name = "uio_close" /\ p THEN "closed"
    ELSE "other"

\* Entering a library call.
Enter(name, p) ==
    /\ pc = "idle"
    /\ op' = name
    /\ present' = p
    /\ prev' = Completed(op, present, ret)

\* if (!info) { errno = EINVAL; perror (...); return -1; }
NullInfo(name) ==
    /\ Enter(name, FALSE)
    /\ errno' = "EINVAL"
    /\ sys' = <<>>
    /\ Returns(-1)
    /\ UNCHANGED <<info, fds, mapped, event, ioerr, timeout, snap, mmapres>>
    /\ UNCHANGED rest

(* ---- uio_open --------------------------------------------------------- *)

uio_open_null == NullInfo("uio_open")

\* (a test that lets the failure of open through)
OpenFailedLax(r) == r < -1

\* if (fd < 0) { perror ("open"); return -1; }
OpenFailed(r) == r < 0

\* (an open that puts the new fd into the descriptor at once)
OpenKeepsLocalStored(d, f) == [d EXCEPT !.fd = f]

\* fd = open (...): the result goes to the local fd, not to the descriptor.
OpenKeepsLocal(d, f) == d

\* fd = open (info->devname, O_RDWR); if (fd < 0) return -1;
uio_open_call ==
    /\ Enter("uio_open", TRUE)
    /\ snap' = info
    /\ \E r \in OpenResults :
          /\ sys' = <<Sys("open", 0, r)>>
          /\ IF OpenFailed(r)
                THEN /\ errno' = "ENOENT"
                     /\ Returns(-1)
                     /\ UNCHANGED <<info, fds, event>>
                ELSE /\ fds' = [fds EXCEPT ![r] = "uio"]
                     /\ info' = OpenKeepsLocal(info, r)
                     /\ event' = FALSE
                     /\ fd' = r
                     /\ i' = 0
                     /\ pc' = "open_map"
                     /\ UNCHANGED <<ret, errno>>
    /\ UNCHANGED <<mapped, ioerr, timeout, mmapres>>
    /\ UNCHANGED rest

\* The slot the mapping loop writes for index m, given mmap's result p.
OpenMapSlot(d, m, p) == [d EXCEPT !.maps[m].map = p]

\* (a loop that leaves out the last index)
OpenMapsIndexShort(d, m) == m < d.maxmap - 1

\* (a loop that stops at the first mapping that failed)
OpenMapsIndexStops(d, m) ==
    IF m = 0 THEN m < d.maxmap
    ELSE m < d.maxmap /\ d.maps[m - 1].map # MAP_FAILED

\* The indices the mapping loop visits: every index below maxmap.
OpenMapsIndex(d, m) == m < d.maxmap

\* for (i = 0; i < info->maxmap; i++)
\*         info->maps [i].map = mmap (NULL, info->maps [i].size, ..., fd, i);
uio_open_mmap ==
    /\ pc = "open_map"
    /\ OpenMapsIndex(info, i)
    /\ \E p \in MmapResults(info.maps[i].size) :
          /\ info' = OpenMapSlot(info, i, p)
          /\ mapped' = IF p = MAP_FAILED THEN mapped ELSE mapped \cup {p}
          /\ errno' = IF p # MAP_FAILED THEN errno
                      ELSE IF info.maps[i].size = 0 THEN "EINVAL" ELSE "ENOMEM"
          /\ sys' = Append(sys, Sys("mmap", i, p))
          /\ mmapres' = [mmapres EXCEPT ![i] = p]
    /\ i' = i + 1
    /\ UNCHANGED <<fds, event, ioerr, pc, op, present, fd, timeout, ret, snap,
                   prev>>
    /\ UNCHANGED rest

\* info->fd = fd; return 0;
uio_open_store ==
    /\ pc = "open_map"
    /\ ~OpenMapsIndex(info, i)
    /\ info' = [info EXCEPT !.fd = fd]
    /\ Returns(0)
    /\ UNCHANGED <<fds, mapped, event, ioerr, op, present, timeout, errno, sys,
                   snap, mmapres, prev>>
    /\ UNCHANGED rest

(* ---- uio_close -------------------------------------------------------- *)

uio_close_null == NullInfo("uio_close")

uio_close_call ==
    /\ Enter("uio_close", TRUE)
    /\ sys' = <<>>
    /\ i' = 0
    /\ pc' = "close_unmap"
    /\ UNCHANGED <<info, fds, mapped, event, ioerr, fd, timeout, ret, errno,
                   snap, mmapres>>
    /\ UNCHANGED rest

\* (a loop that unmaps every slot, mapped or not)
CloseUnmapsAlways(p) == TRUE

\* if (info->maps [i].map != MAP_FAILED) munmap (...);
CloseUnmaps(p) == p # MAP_FAILED

\* (a loop that leaves the pointer in the slot)
CloseMapSlotKept(d, m) == d

\* info->maps [i].map = MAP_FAILED;
CloseMapSlot(d, m) == [d EXCEPT !.maps[m].map = MAP_FAILED]

\* for (i = 0; i < info->maxmap; i++) { ... }
uio_close_unmap ==
    /\ pc = "close_unmap"
    /\ i < info.maxmap
    /\ LET p == info.maps[i].map IN
          IF CloseUnmaps(p)
             THEN /\ sys' = Append(sys, Sys("munmap", p,
                                            IF p \in mapped THEN 0 ELSE -1))
                  /\ mapped' = mapped \ {p}
                  /\ errno' = IF p \in mapped THEN errno ELSE "EINVAL"
             ELSE UNCHANGED <<sys, mapped, errno>>
    /\ info' = CloseMapSlot(info, i)
    /\ i' = i + 1
    /\ UNCHANGED <<fds, event, ioerr, pc, op, present, fd, timeout, ret, snap,
                   mmapres, prev>>
    /\ UNCHANGED rest

\* The descriptor after close (info->fd): the fd field is left as it is.
CloseFdField(d) == d

\* close (info->fd); return 0;
uio_close_close ==
    /\ pc = "close_unmap"
    /\ ~(i < info.maxmap)
    /\ LET r == CloseResult(info.fd) IN
          /\ sys' = Append(sys, Sys("close", info.fd, r))
          /\ fds' = IF r = 0 THEN [fds EXCEPT ![info.fd] = "free"] ELSE fds
          /\ errno' = IF r = 0 THEN errno ELSE "EBADF"
    /\ info' = CloseFdField(info)
    /\ Returns(0)
    /\ event' = FALSE
    /\ UNCHANGED <<mapped, ioerr, op, present, timeout, snap, mmapres, prev>>
    /\ UNCHANGED rest

(* ---- uio_enable_irq / uio_disable_irq ------------------------------- *)

\* The builds: unsigned long of 4 or 8 bytes, either byte order.
Abis == [long : {4, 8}, big : BOOLEAN]

\* Byte e (0 the least significant) of a value v below 2^32.
ByteAt(v, e) == IF e > 3 THEN 0 ELSE (v \div (256 ^ e)) % 256

\* The n bytes of the object that holds the value v, in memory order.
BytesOf(v, n, big) ==
    [k \in 1 .. n |-> IF big THEN ByteAt(v, n - k) ELSE ByteAt(v, k - 1)]

\* The 32-bit value the device takes from the 4 bytes b it is handed.
Word32(b, big) ==
    IF big THEN b[1] * (256 ^ 3) + b[2] * (256 ^ 2) + b[3] * 256 + b[4]
           ELSE b[4] * (256 ^ 3) + b[3] * (256 ^ 2) + b[2] * 256 + b[1]

\* write (info->fd, &tmp, 4) with unsigned long tmp: the first 4 bytes of tmp.
WriteBuffer(tmp) ==
    [k \in 1 .. IrqBytes |-> BytesOf(tmp, abi.long, abi.big)[k]]

\* Results of write (f, &tmp, 4): -1, or the number of bytes accepted.
WriteResults(f) ==
    IF f \in Fds /\ fds[f] # "free" THEN {-1} \cup (0 .. IrqBytes) ELSE {-1}

\* if (!info || info->fd == -1): the call is refused.
NotOpenArg(p, d) == ~p \/ d.fd = ClosedFd

\* return (write (info->fd, &tmp, 4) == 4) ? 0 : -1;
WriteReturn(r) == IF r = IrqBytes THEN 0 ELSE -1

IrqControl(name, tmp, p) ==
    /\ Enter(name, p)
    /\ IF NotOpenArg(p, info)
          THEN /\ errno' = "EINVAL"
               /\ sys' = <<>>
               /\ Returns(-1)
          ELSE \E r \in WriteResults(info.fd) :
                  /\ sys' = <<[c |-> "write", a |-> info.fd, r |-> r,
                               b |-> WriteBuffer(tmp)]>>
                  /\ errno' = IF r >= 0 THEN errno
                              ELSE IF CloseResult(info.fd) = 0 THEN "EIO"
                              ELSE "EBADF"
                  /\ Returns(WriteReturn(r))
    /\ UNCHANGED <<info, fds, mapped, event, ioerr, timeout, snap, mmapres>>
    /\ UNCHANGED rest

\* unsigned long tmp = 1;
uio_enable_irq == \E p \in BOOLEAN : IrqControl("uio_enable_irq", 1, p)

\* unsigned long tmp = 0;
uio_disable_irq == \E p \in BOOLEAN : IrqControl("uio_disable_irq", 0, p)

(* ---- uio_irqwait_timeout ---------------------------------------------- *)

\* The file behind f has something to read: the device's event, or any
\* content of an unrelated file.
Readable(f) == (fds[f] = "uio" /\ event) \/ fds[f] = "other"

\* if (timeout) { select } ... read
WaitFirstStep(t) == IF t # NoTimeout THEN "irq_select" ELSE "irq_read"

uio_irqwait_timeout_call ==
    \E p \in BOOLEAN, t \in {NoTimeout} \cup (0 .. MaxTimeout) :
       /\ Enter("uio_irqwait_timeout", p)
       /\ sys' = <<>>
       /\ timeout' = t
       /\ IF NotOpenArg(p, info)
             THEN /\ errno' = "EINVAL"
                  /\ Returns(-1)
             ELSE /\ pc' = WaitFirstStep(t)
                  /\ UNCHANGED <<errno, ret, i, fd>>
       /\ UNCHANGED <<info, fds, mapped, event, ioerr, snap, mmapres>>
       /\ UNCHANGED rest

\* Results of select (info->fd + 1, &rfds, NULL, NULL, timeout) that are
\* available now: -1 with its errno, 0 once the deadline has elapsed with
\* nothing to read, 1 when the descriptor is readable.
SelectResults ==
    IF CloseResult(info.fd) # 0 THEN {<<-1, "EBADF">>}
    ELSE (IF ioerr THEN {<<-1, "EINTR">>} ELSE {})
         \cup (IF Readable(info.fd) THEN {<<1, errno>>} ELSE {})
         \cup (IF timeout = 0 /\ ~Readable(info.fd) THEN {<<0, errno>>} ELSE {})

\* (a switch without the case 0)
SelectReturnsOnError(r) == r = -1

\* switch (ret) { case 0: errno = ETIMEDOUT; case -1: return -1; }
SelectReturns(r) == r = 0 \/ r = -1

\* (a switch that leaves errno alone)
SelectErrnoKept(r, e) == e

SelectErrno(r, e) == IF r = 0 THEN "ETIMEDOUT" ELSE e

uio_irqwait_select ==
    /\ pc = "irq_select"
    /\ \E s \in SelectResults :
          /\ sys' = Append(sys, Sys("select", info.fd, s[1]))
          /\ errno' = SelectErrno(s[1], s[2])
          /\ IF SelectReturns(s[1])
                THEN /\ Returns(-1)
                     /\ ioerr' = FALSE
                ELSE /\ pc' = "irq_read"
                     /\ UNCHANGED <<ret, i, fd, ioerr>>
    /\ UNCHANGED <<info, fds, mapped, event, op, present, timeout, snap,
                   mmapres, prev>>
    /\ UNCHANGED rest

\* Results of read (info->fd, &dummy, 4) that are available now: -1 with its
\* errno, or the bytes read once there is something to read.  With nothing
\* to read and no error the read blocks.
ReadResults ==
    IF CloseResult(info.fd) # 0 THEN {<<-1, "EBADF">>}
    ELSE (IF ioerr THEN {<<-1, "EIO">>} ELSE {})
         \cup (IF Readable(info.fd) THEN {<<n, errno>> : n \in 0 .. IrqBytes}
               ELSE {})

\* (a result that counts only a full counter as read)
ReadReturnExact(r) == IF r = IrqBytes THEN 0 ELSE -1

\* return (ret < 0) ? ret : 0;
ReadReturn(r) == IF r < 0 THEN r ELSE 0

uio_irqwait_read ==
    /\ pc = "irq_read"
    /\ \E s \in ReadResults :
          /\ sys' = Append(sys, Sys("read", info.fd, s[1]))
          /\ errno' = s[2]
          /\ event' = IF s[1] >= 0 /\ fds[info.fd] = "uio" THEN FALSE ELSE event
          /\ Returns(ReadReturn(s[1]))
    /\ ioerr' = FALSE
    /\ UNCHANGED <<info, fds, mapped, op, present, timeout, snap, mmapres,
                   prev>>
    /\ UNCHANGED rest

(* ---- the device and the clock ----------------------------------------- *)

\* The device raises an interrupt: the open file has an event to read.
Interrupt ==
    /\ pc \in {"idle", "irq_select", "irq_read"}
    /\ HandleOpen(info)
    /\ ~event
    /\ event' = TRUE
    /\ UNCHANGED <<info, fds, mapped, ioerr, pc, op, present, i, fd, timeout,
                   ret, errno, sys, snap, mmapres, prev>>
    /\ UNCHANGED rest

\* A blocking call of the thread is hit by an error (a signal, a device
\* error).
IoError ==
    /\ pc \in {"irq_select", "irq_read"}
    /\ ~ioerr
    /\ ioerr' = TRUE
    /\ UNCHANGED <<info, fds, mapped, event, pc, op, present, i, fd, timeout,
                   ret, errno, sys, snap, mmapres, prev>>
    /\ UNCHANGED rest

\* Time passes while select waits: the timeval runs down.
Tick ==
    /\ pc = "irq_select"
    /\ timeout > 0
    /\ timeout' = timeout - 1
    /\ UNCHANGED <<info, fds, mapped, event, ioerr, pc, op, present, i, fd,
                   ret, errno, sys, snap, mmapres, prev>>
    /\ UNCHANGED rest

(* ---- the accessors --------------------------------------------------- *)

\* The int map arguments tried: below 0, every index, and maxmap itself.
MapArgs == -1 .. MaxMaps

\* if (!info || map >= info->maxmap) return 0;
OutOfRange(p, d, m) == ~p \/ m >= d.maxmap

\* What a read of info->maps [m].field finds: the field of the slot, or, for
\* an m that is no index of the array, whatever lies at that place in memory.
SlotReads(d, m, field) ==
    IF m \in 0 .. (d.maxmap - 1) THEN {d.maps[m][field]}
    ELSE {MAP_FAILED, 0} \cup Sizes \cup Addrs

\* uio_get_mem_map: ... || info->maps [map].map == MAP_FAILED) return NULL;
NullIfFailed(field, v) == IF field = "map" /\ v = MAP_FAILED THEN 0 ELSE v

\* uio_get_mem_size, uio_get_offset, uio_get_mem_addr, uio_get_mem_map: the
\* read of a slot outside the array either faults or returns what it finds.
Accessor(name, field) ==
    \E p \in BOOLEAN, m \in MapArgs :
       /\ Enter(name, p)
       /\ map' = m
       /\ IF OutOfRange(p, info, m)
             THEN /\ sys' = <<>>
                  /\ Returns(0)
             ELSE \/ \E v \in SlotReads(info, m, field) :
                        /\ sys' = <<Sys("load", m, v)>>
                        /\ Returns(NullIfFailed(field, v))
                  \/ /\ m \notin 0 .. (info.maxmap - 1)
                     /\ sys' = <<Sys("load", m, 0)>>
                     /\ pc' = "fault"
                     /\ UNCHANGED <<ret, i, fd>>
       /\ UNCHANGED <<info, fds, mapped, event, ioerr, timeout, errno, snap,
                      mmapres, abi, devices>>

uio_get_mem_size == Accessor("uio_get_mem_size", "size")

uio_get_offset == Accessor("uio_get_offset", "offset")

uio_get_mem_addr == Accessor("uio_get_mem_addr", "addr")

uio_get_mem_map == Accessor("uio_get_mem_map", "map")

(* ---- uio_find_devices ------------------------------------------------- *)

\* Entry names, as the characters they are made of.
Dot == <<46>>
DotDot == <<46, 46>>
DevName(k) == <<117, 105, 111, 48 + k>>

DevNames == {DevName(k) : k \in 0 .. (MaxDevs - 1)}
Names == {Dot, DotDot} \cup DevNames

\* What readdir can list for a directory, in the order of the file system:
\* any entries, each once; "." and ".." need not be listed.
Listings ==
    {d \in UNION {[1 .. n -> Names] : n \in 0 .. Cardinality(Names)} :
        \A j, k \in DOMAIN d : j # k => d[j] # d[k]}

\* strcmp (a, b): the order alphasort sorts by.
RECURSIVE StrCmp(_, _)
StrCmp(a, b) ==
    IF a = <<>> THEN (IF b = <<>> THEN 0 ELSE -1)
    ELSE IF b = <<>> THEN 1
    ELSE IF Head(a) < Head(b) THEN -1
    ELSE IF Head(a) > Head(b) THEN 1
    ELSE StrCmp(Tail(a), Tail(b))

RECURSIVE Insert(_, _)
Insert(x, l) ==
    IF l = <<>> THEN <<x>>
    ELSE IF StrCmp(x, Head(l)) <= 0 THEN <<x>> \o l
    ELSE <<Head(l)>> \o Insert(x, Tail(l))

RECURSIVE SortNames(_)
SortNames(l) ==
    IF l = <<>> THEN <<>> ELSE Insert(Head(l), SortNames(Tail(l)))

\* (a scandir without a compare function: the order of the file system)
ScandirUnsorted(dir) == dir

\* nr = scandir (sysfsname, &namelist, 0, alphasort): every entry, sorted.
Scandir(dir) == SortNames(dir)

\* A null pointer in the array.
Null == <<>>

\* create_uio_info (sysfsname, name): the descriptor of the entry (here: its
\* name), or NULL when the factory fails for it.
create_uio_info(name, fails) == IF name \in fails THEN Null ELSE name

\* !strcmp (d_name, ".") || !strcmp (d_name, "..")
IsPseudo(name) == name = Dot \/ name = DotDot

\* (a loop that keeps the slot when the factory returned NULL)
LoopBodyCompacts(namelist, k, st, fails) ==
    IF IsPseudo(namelist[k]) THEN st
    ELSE IF create_uio_info(namelist[k], fails) = Null
            THEN [st EXCEPT !.calls = Append(@, namelist[k])]
    ELSE [list |-> [st.list EXCEPT
                       ![st.t + 1] = create_uio_info(namelist[k], fails)],
          t |-> st.t + 1,
          calls |-> Append(st.calls, namelist[k])]

\* if (pseudo entry) continue; info [t++] = create_uio_info (...);
LoopBody(namelist, k, st, fails) ==
    IF IsPseudo(namelist[k]) THEN st
    ELSE [list |-> [st.list EXCEPT
                       ![st.t + 1] = create_uio_info(namelist[k], fails)],
          t |-> st.t + 1,
          calls |-> Append(st.calls, namelist[k])]

\* for (i = 0; i < nr; i++) { ... }, from entry k on.
RECURSIVE FindLoop(_, _, _, _)
FindLoop(namelist, k, st, fails) ==
    IF k > Len(namelist) THEN st
    ELSE FindLoop(namelist, k + 1, LoopBody(namelist, k, st, fails), fails)

\* info = calloc (nr, sizeof (struct uio_info_t *)): nr null pointers.
Calloc(nr) == [k \in 1 .. nr |-> Null]

\* A directory not yet scanned: its listing and the entries the factory
\* fails for.
Directory(dir, fails) ==
    [dir |-> dir, fails |-> fails, nr |-> 0, ok |-> FALSE, list |-> <<>>,
     t |-> 0, calls |-> <<>>]

FindReturns(ok, nr, st) ==
    /\ devices' = [devices EXCEPT !.nr = nr, !.ok = ok, !.list = st.list,
                                  !.t = st.t, !.calls = st.calls]
    /\ Returns(IF ok THEN 0 ELSE -1)

NoLoop == [list |-> <<>>, t |-> 0, calls |-> <<>>]

uio_find_devices ==
    /\ Enter("uio_find_devices", TRUE)
    /\ \/ \* scandir fails: return NULL
          /\ sys' = <<Sys("scandir", 0, -1)>>
          /\ errno' = "ENOENT"
          /\ FindReturns(FALSE, -1, NoLoop)
       \/ \* calloc fails: return NULL
          LET namelist == Scandir(devices.dir) IN
          /\ sys' = <<Sys("scandir", 0, Len(namelist)),
                      Sys("calloc", Len(namelist), 0)>>
          /\ errno' = "ENOMEM"
          /\ FindReturns(FALSE, Len(namelist), NoLoop)
       \/ LET namelist == Scandir(devices.dir)
              st == FindLoop(namelist, 1,
                             [list |-> Calloc(Len(namelist)), t |-> 0,
                              calls |-> <<>>], devices.fails)
          IN
          /\ sys' = <<Sys("scandir", 0, Len(namelist)),
                      Sys("calloc", Len(namelist), 1)>>
          /\ errno' = errno
          /\ FindReturns(TRUE, Len(namelist), st)
    /\ UNCHANGED <<info, fds, mapped, event, ioerr, timeout, snap, mmapres,
                   abi, map>>

(* ---- the rest of the process ------------------------------------------ *)

\* Other code of the process opens a file of its own.
OtherOpen ==
    /\ pc = "idle"
    /\ FreeFds # {}
    /\ fds' = [fds EXCEPT ![LowestFree] = "other"]
    /\ UNCHANGED <<info, mapped, event, ioerr, pc, op, present, i, fd,
                   timeout, ret, errno, sys, snap, mmapres, prev>>
    /\ UNCHANGED rest

\* Other code of the process closes a file of its own.
OtherClose ==
    /\ pc = "idle"
    /\ \E f \in Fds :
          /\ fds[f] = "other"
          /\ fds' = [fds EXCEPT ![f] = "free"]
    /\ UNCHANGED <<info, mapped, event, ioerr, pc, op, present, i, fd,
                   timeout, ret, errno, sys, snap, mmapres, prev>>
    /\ UNCHANGED rest

\* A build with a 64-bit little-endian unsigned long.
HostAbi == [long |-> 8, big |-> FALSE]

NoDevices == Directory(<<>>, {})

InitWith(a, d) ==
    /\ abi = a
    /\ map = 0
    /\ devices = d
    /\ \E sizes \in [MapIdx -> Sizes] : info = NewInfo(sizes)
    /\ fds = [f \in Fds |-> "free"]
    /\ mapped = {}
    /\ event = FALSE
    /\ ioerr = FALSE
    /\ pc = "idle"
    /\ op = "none"
    /\ present = TRUE
    /\ i = 0
    /\ fd = ClosedFd
    /\ timeout = NoTimeout
    /\ ret = 0
    /\ errno = "0"
    /\ sys = <<>>
    /\ snap = info
    /\ mmapres = [m \in MapIdx |-> MAP_FAILED]
    /\ prev = "other"

InitOn(a) == InitWith(a, NoDevices)

Init == InitOn(HostAbi)

\* The same on any build.
InitAbi == \E a \in Abis : InitOn(a)

\* A directory to scan, and a descriptor without maps.
InitFind ==
    /\ \E dir \in Listings :
          \E fails \in SUBSET ({dir[k] : k \in DOMAIN dir} \cap DevNames) :
             InitWith(HostAbi, Directory(dir, fails))
    /\ \A m \in MapIdx : info.maps[m].size = 0

NextFind == uio_find_devices

SpecFind == InitFind /\ [][NextFind]_vars

\* The life cycle of the descriptor alone.
Next ==
    \/ uio_open_null
    \/ uio_open_call
    \/ uio_open_mmap
    \/ uio_open_store
    \/ uio_close_null
    \/ uio_close_call
    \/ uio_close_unmap
    \/ uio_close_close

Spec == Init /\ [][Next]_vars

\* The life cycle, in a process whose other code opens and closes files.
NextProc ==
    \/ Next
    \/ OtherOpen
    \/ OtherClose

SpecProc == Init /\ [][NextProc]_vars

(* ======================================================================= *)
(* Properties of the life cycle                                            *)
(* ======================================================================= *)

\* A uio_open / uio_close of the descriptor (info not NULL) has returned.
OpenDone == pc = "idle" /\ op = "uio_open" /\ present
CloseDone == pc = "idle" /\ op = "uio_close" /\ present

\* The system calls named c that the call issued, as positions of sys.
Calls(c) == {k \in 1 .. Len(sys) : sys[k].c = c}

Slots == 0 .. (info.maxmap - 1)

\* C1: a successful uio_open of an unopened descriptor (fd = -1, every
\* pointer the sentinel) followed immediately by uio_close leaves the
\* descriptor as it was before the open: every pointer the sentinel again
\* and the fd field back at -1.
C1_RoundTrip ==
    (CloseDone /\ prev = "opened" /\ Unopened(snap)) => info = snap

\* C2: between calls, the pointer of slot m is a valid mapping if and only
\* if the descriptor's file handle is open and the mapping call for m
\* succeeded during the most recent open.
C2_MappedIffOpen ==
    pc = "idle" =>
        \A m \in Slots :
            (info.maps[m].map # MAP_FAILED)
                <=> (HandleOpen(info) /\ mmapres[m] # MAP_FAILED)

C2_Witness ==
    /\ OpenDone /\ ret = 0
    /\ info.maps[0].map = MAP_FAILED
    /\ info.maps[0].size > 0
    /\ info.maps[1].map # MAP_FAILED

\* C4 (as stated): a successful uio_open issues no mapping call for an index
\* whose declared size is 0, and the number of mapping calls is the number
\* of slots with size > 0.
C4_NoMapCallForSizeZero ==
    (OpenDone /\ ret = 0) =>
        /\ \A k \in Calls("mmap") : info.maps[sys[k].a].size > 0
        /\ Cardinality(Calls("mmap"))
              = Cardinality({m \in Slots : info.maps[m].size > 0})

\* C4 (amended): a successful uio_open issues exactly one mapping call for
\* every index 0 .. maxmap-1, in order, whatever the declared size; the call
\* for a slot of size 0 fails, so that slot holds the sentinel afterwards.
C4_MapCallForEveryIndex ==
    (OpenDone /\ ret = 0) =>
        /\ Len(sys) = 1 + info.maxmap
        /\ \A m \in Slots : sys[m + 2].c = "mmap" /\ sys[m + 2].a = m
        /\ \A m \in Slots :
              info.maps[m].size = 0 => info.maps[m].map = MAP_FAILED

C4_Witness ==
    /\ OpenDone /\ ret = 0
    /\ info.maps[0].size > 0 /\ info.maps[0].map # MAP_FAILED
    /\ info.maps[1].size = 0
    /\ Len(sys) = 3 /\ sys[3] = Sys("mmap", 1, MAP_FAILED)

\* C5: when the device node cannot be opened, uio_open returns failure,
\* issues no mapping call and leaves the descriptor as it was on entry.
C5_OpenFailureLeavesDescriptor ==
    (OpenDone /\ sys[1].r < 0) =>
        /\ ret = -1
        /\ Calls("mmap") = {}
        /\ info = snap

C5_Witness ==
    /\ OpenDone /\ sys[1].r < 0
    /\ HandleOpen(info)
    /\ \E m \in Slots : info.maps[m].map # MAP_FAILED

\* C6: when the device node opens, uio_open returns success and stores the
\* handle whatever mapping calls fail: every index is attempted, and every
\* slot holds what its mapping call returned (the sentinel for a failure,
\* the pointer for a success).
C6_OpenSucceedsDespiteMapFailures ==
    (OpenDone /\ sys[1].r >= 0) =>
        /\ ret = 0
        /\ info.fd = sys[1].r
        /\ HandleOpen(info)
        /\ Len(sys) = 1 + info.maxmap
        /\ \A m \in Slots :
              /\ sys[m + 2] = Sys("mmap", m, info.maps[m].map)
              /\ info.maps[m].map # MAP_FAILED => info.maps[m].map \in mapped

C6_Witness ==
    /\ OpenDone /\ sys[1].r >= 0
    /\ info.maps[0].size > 0 /\ sys[2].r = MAP_FAILED
    /\ sys[3].r # MAP_FAILED

\* C7: uio_close of a descriptor returns success and leaves every pointer
\* the sentinel; a second uio_close right after it issues no unmap, and no
\* uio_close unmaps an address at which nothing is mapped.
C7_CloseIdempotent ==
    CloseDone =>
        /\ ret = 0
        /\ \A m \in Slots : info.maps[m].map = MAP_FAILED
        /\ \A k \in Calls("munmap") : sys[k].r = 0
        /\ prev = "closed" => Calls("munmap") = {}

C7_Witness ==
    /\ CloseDone /\ prev = "closed"
    /\ \E m \in Slots : mmapres[m] # MAP_FAILED

\* Enabling and disabling the interrupt of a descriptor that is opened and
\* closed.
NextIrq ==
    \/ uio_open_call
    \/ uio_open_mmap
    \/ uio_open_store
    \/ uio_close_call
    \/ uio_close_unmap
    \/ uio_close_close
    \/ uio_enable_irq
    \/ uio_disable_irq
    \/ uio_irqwait_timeout_call
    \/ uio_irqwait_select
    \/ uio_irqwait_read

SpecIrq == Init /\ [][NextIrq]_vars

\* uio_open called by a caller that opens the descriptor only while it does
\* not hold it open.
uio_open_closed == ~HandleOpen(info) /\ uio_open_call

\* The accessors on a descriptor that is opened and closed.
NextGet ==
    \/ uio_open_closed
    \/ uio_open_mmap
    \/ uio_open_store
    \/ uio_close_call
    \/ uio_close_unmap
    \/ uio_close_close
    \/ uio_get_mem_size
    \/ uio_get_offset
    \/ uio_get_mem_addr
    \/ uio_get_mem_map

SpecGet == Init /\ [][NextGet]_vars

Accessors ==
    {"uio_get_mem_size", "uio_get_offset", "uio_get_mem_addr",
     "uio_get_mem_map"}

\* C12: every accessor is total: for an absent descriptor and for every map
\* index outside 0 .. maxmap-1 (at or above maxmap, or negative) it returns
\* 0 / NULL without reading a slot; uio_get_mem_map returns NULL, never
\* MAP_FAILED, for a slot of the array that is not mapped.
C12_AccessorsTotal ==
    /\ pc # "fault"
    /\ (pc = "idle" /\ op \in Accessors) =>
          /\ (~present \/ map \notin Slots) => (ret = 0 /\ sys = <<>>)
          /\ (op = "uio_get_mem_map" /\ present /\ map \in Slots
               /\ info.maps[map].map = MAP_FAILED) => ret = 0

\* Enabling and disabling the interrupt, on every build.
NextAbi ==
    \/ uio_open_closed
    \/ uio_open_mmap
    \/ uio_open_store
    \/ uio_close_call
    \/ uio_close_unmap
    \/ uio_close_close
    \/ uio_enable_irq
    \/ uio_disable_irq

SpecAbi == InitAbi /\ [][NextAbi]_vars

\* Waiting for the interrupt of a descriptor that is opened and closed.
NextWait ==
    \/ uio_open_closed
    \/ uio_open_mmap
    \/ uio_open_store
    \/ uio_close_call
    \/ uio_close_unmap
    \/ uio_close_close
    \/ uio_irqwait_timeout_call
    \/ uio_irqwait_select
    \/ uio_irqwait_read
    \/ Interrupt
    \/ IoError
    \/ Tick

SpecWait == Init /\ [][NextWait]_vars

\* The same, with time passing and the kernel returning from select and
\* read once they have a result.
LiveWait ==
    /\ SpecWait
    /\ WF_vars(Tick)
    /\ WF_vars(uio_irqwait_select)
    /\ WF_vars(uio_irqwait_read)

(* ======================================================================= *)
(* Properties of the interrupt calls                                       *)
(* ======================================================================= *)

IrqOps == {"uio_enable_irq", "uio_disable_irq", "uio_irqwait_timeout"}

WaitDone == pc = "idle" /\ op = "uio_irqwait_timeout" /\ present

\* C3: uio_enable_irq, uio_disable_irq and uio_irqwait_timeout on a
\* descriptor that is absent or not open (never opened, or closed by
\* uio_close since) return failure with EINVAL and issue no write, select or
\* read.
C3_IrqCallsRefuseNotOpen ==
    (pc = "idle" /\ op \in IrqOps /\ (~present \/ ~HandleOpen(info))) =>
        /\ ret = -1
        /\ errno = "EINVAL"
        /\ sys = <<>>

\* C11: on an open descriptor uio_enable_irq hands write 4 bytes that encode
\* the 32-bit value 1, and uio_disable_irq 4 bytes that encode 0, on every
\* build (unsigned long of 4 or 8 bytes, either byte order); each returns
\* success if and only if write reports 4 bytes accepted.
C11_IrqValueWritten ==
    (pc = "idle" /\ op \in {"uio_enable_irq", "uio_disable_irq"}
     /\ present /\ HandleOpen(info)) =>
        /\ Len(sys) = 1 /\ sys[1].c = "write" /\ sys[1].a = info.fd
        /\ Len(sys[1].b) = 4
        /\ Word32(sys[1].b, abi.big) = (IF op = "uio_enable_irq" THEN 1 ELSE 0)
        /\ ret = 0 <=> sys[1].r = 4

\* C8: in a wait with a deadline, a select result of 0 returns failure with
\* ETIMEDOUT and no read, a negative result returns failure with another
\* errno and no read, and a positive result goes on to the read.
C8_SelectClassified ==
    (op = "uio_irqwait_timeout" /\ Calls("select") # {}) =>
        /\ sys[1].c = "select"
        /\ sys[1].r = 0 =>
              pc = "idle" /\ ret = -1 /\ errno = "ETIMEDOUT" /\ Len(sys) = 1
        /\ sys[1].r < 0 =>
              pc = "idle" /\ ret = -1 /\ errno # "ETIMEDOUT" /\ Len(sys) = 1
        /\ sys[1].r > 0 =>
              \/ pc = "irq_read" /\ Len(sys) = 1
              \/ pc = "idle" /\ Len(sys) = 2 /\ sys[2].c = "read"

C8_Witness ==
    /\ WaitDone /\ HandleOpen(info) /\ ~event
    /\ sys = <<Sys("select", info.fd, 0)>>
    /\ ret = -1 /\ errno = "ETIMEDOUT"

\* C9: once the read is reached, the return value follows from its result
\* alone: a negative result is returned as it is, every other result (4, a
\* short 1 .. 3, or 0 bytes) returns 0.
C9_ReadClassified ==
    (WaitDone /\ Calls("read") # {}) =>
        LET r == sys[Len(sys)].r IN
            /\ sys[Len(sys)].c = "read"
            /\ r < 0 => ret = r
            /\ r >= 0 => ret = 0

C9_Witness ==
    /\ WaitDone /\ HandleOpen(info)
    /\ Len(sys) = 2 /\ sys[2] = Sys("read", info.fd, 2)
    /\ ret = 0

\* C10: a wait on an open descriptor returns only on an event, on the
\* deadline or on an error.  With a deadline the call always returns; it
\* returns success only from a state with an event pending; with no
\* deadline it issues no select and stays in the read for as long as there
\* is no event and no error.
C10_WaitBlocksUntil ==
    /\ (pc = "irq_select") ~> (pc = "idle")
    /\ [][(pc # "idle" /\ op = "uio_irqwait_timeout" /\ HandleOpen(info)
           /\ pc' = "idle" /\ ret' = 0) => event]_vars
    /\ [][(pc = "irq_read" /\ timeout = NoTimeout /\ HandleOpen(info)
           /\ ~event /\ ~ioerr) => pc' = "irq_read"]_vars
    /\ []((op = "uio_irqwait_timeout" /\ present /\ timeout = NoTimeout)
            => Calls("select") = {})
    /\ []((pc = "irq_read" /\ timeout # NoTimeout)
            => Calls("select") # {})

C10_Witness ==
    /\ pc = "irq_read" /\ timeout = NoTimeout /\ HandleOpen(info)
    /\ ~event /\ ~ioerr /\ sys = <<>>

(* ---- uio_find_devices: the claims -------------------------------------- *)

FindDone == pc = "idle" /\ op = "uio_find_devices"

NotPseudo(name) == ~IsPseudo(name)

\* The device entries of the directory.
Entries == {devices.dir[k] : k \in DOMAIN devices.dir} \ {Dot, DotDot}

\* The slots of the returned array that hold a descriptor.
Filled == {k \in DOMAIN devices.list : devices.list[k] # Null}

\* C13: when uio_find_devices returns an array and the factory made a
\* descriptor for every entry, the array holds exactly one descriptor per
\* entry other than "." and "..", in slots 0 .. n-1 (here 1 .. n), in
\* lexicographic order of the names, whatever the order of the listing.
C13_SortedDescriptors ==
    (FindDone /\ devices.ok /\ devices.fails = {}) =>
        LET n == Cardinality(Entries) IN
        /\ Filled = 1 .. n
        /\ {devices.list[k] : k \in Filled} = Entries
        /\ \A j, k \in Filled :
              j < k => StrCmp(devices.list[j], devices.list[k]) < 0

\* uio0, uio2, uio1 listed in this order and returned as uio0, uio1, uio2.
C13_Witness ==
    /\ FindDone /\ devices.ok /\ devices.fails = {}
    /\ \E a, b, c \in DOMAIN devices.dir :
          /\ a < b /\ b < c
          /\ devices.dir[a] = DevName(0)
          /\ devices.dir[b] = DevName(2)
          /\ devices.dir[c] = DevName(1)
    /\ SubSeq(devices.list, 1, 3) = <<DevName(0), DevName(1), DevName(2)>>

\* The entries other than "." and ".." in scan order.
ScanOrder == SelectSeq(SortNames(devices.dir), NotPseudo)

\* C14: a failure of the factory does not end the scan: the factory is
\* called exactly once for every entry other than "." and "..", in scan
\* order, and the k-th of these entries has its result, null included, in
\* slot k-1 (here k).
C14_FailureKeepsSlot ==
    (FindDone /\ devices.ok) =>
        /\ devices.calls = ScanOrder
        /\ devices.t = Len(ScanOrder)
        /\ Len(devices.list) >= Len(ScanOrder)
        /\ \A k \in 1 .. Len(ScanOrder) :
              devices.list[k] = (IF ScanOrder[k] \in devices.fails
                                   THEN Null ELSE ScanOrder[k])

\* The factory failed for the first entry and made the second.
C14_Witness ==
    /\ FindDone /\ devices.ok
    /\ Len(ScanOrder) >= 2
    /\ ScanOrder[1] \in devices.fails
    /\ ScanOrder[2] \notin devices.fails
    /\ devices.list[1] = Null
    /\ devices.list[2] = ScanOrder[2]

\* C18: the returned array is null-terminated: of the nr entries listed, t
\* are not "." or "..", and t < nr; slots 0 .. t-1 hold the results of the
\* factory and the slots after them are null; when every call of the factory
\* succeeded the first null slot is slot t.
C18_NullTerminated ==
    (FindDone /\ devices.ok) =>
        /\ devices.nr = Len(devices.dir)
        /\ devices.t = Cardinality(Entries)
        /\ devices.t < devices.nr
        /\ \A k \in (devices.t + 1) .. devices.nr : devices.list[k] = Null
        /\ devices.fails = {} => Filled = 1 .. devices.t

(* ---- order inside uio_open and uio_close -------------------------------- *)

\* uio_open is between its open and its return, with a slot already mapped.
OpenMapping ==
    /\ pc = "open_map" /\ op = "uio_open"
    /\ \E k \in Calls("mmap") : sys[k].r # MAP_FAILED

\* uio_close has unmapped every slot before it closes the handle.
CloseUnmapsFirst ==
    (op = "uio_close" /\ present) =>
        /\ \A j \in Calls("munmap"), k \in Calls("close") : j < k
        /\ Calls("close") # {} =>
              \A m \in Slots : info.maps[m].map = MAP_FAILED

\* C15 as stated: uio_open has the open handle in the descriptor before the
\* first mapping, so whenever a slot is already mapped the fd field is the
\* handle just opened; uio_close unmaps every mapped slot before it closes.
C15_HandleStoredBeforeMaps ==
    /\ OpenMapping => info.fd = fd
    /\ CloseUnmapsFirst

\* C15: uio_open maps with the handle in a local variable and stores it in
\* the descriptor after the last mapping attempt: while it maps, the fd
\* field is what it was before the call; at its return the field is the
\* handle opened.  uio_close unmaps every mapped slot before it closes.
C15_HandleStoredAfterMaps ==
    /\ pc = "open_map" => (info.fd = snap.fd /\ fd = sys[1].r)
    /\ (OpenDone /\ ret = 0) => info.fd = sys[1].r
    /\ CloseUnmapsFirst

\* A first uio_open with a slot mapped and the fd field still closed.
C15_Witness ==
    /\ OpenMapping
    /\ info.fd = ClosedFd
    /\ fd \in Fds /\ fds[fd] = "uio"

(* ---- the descriptors uio_close closes ----------------------------------- *)

\* The step of uio_close that calls close.
ClosesHandle == pc = "close_unmap" /\ pc' = "idle"

\* C16: over any sequence of uio_open and uio_close calls on the descriptor,
\* with other code of the process opening and closing files of its own, a
\* close by uio_close that closes a file closes one that uio_open obtained
\* and that has not been closed since: never a file of the other code.
C16_ClosesOwnHandleOnly ==
    [][(ClosesHandle /\ fds' # fds) =>
          (fds[info.fd] = "uio" /\ fds' = [fds EXCEPT ![info.fd] = "free"])]_vars

(* ---- resources held after uio_close ------------------------------------- *)

\* The descriptors of the process that uio_open obtained and nobody closed.
HeldFds == {f \in Fds : fds[f] = "uio"}

\* C17: after any sequence of uio_open and uio_close calls on the descriptor
\* that ends with a uio_close (a uio_open of an open descriptor included),
\* every file descriptor uio_open obtained is closed and every region it
\* mapped is unmapped.
C17_NoLeakAfterClose ==
    CloseDone => (HeldFds = {} /\ mapped = {})
====
